---- MODULE Spec2Model ----
(***************************************************************************)
(* Model of app.py: twelve stateless Flask form handlers that parse        *)
(* string fields, validate them and evaluate closed-form health formulas.  *)
(*                                                                         *)
(* Strings are sequences of one-character strings, so that to_float /      *)
(* to_int are real parsers.  A Python float is modelled as NaN, +-inf or   *)
(* an exact rational n/d in lowest terms.  The special values, their        *)
(* comparison rules and the exceptions of round() and of division are      *)
(* modelled; the binary rounding error of IEEE doubles is not, so a value  *)
(* that is a decimal tie only in exact arithmetic (51.55 rounded to one    *)
(* decimal) may round the other way in the program.                        *)
(***************************************************************************)
EXTENDS Integers, Sequences, FiniteSets, TLC

VARIABLES route, method, form, status, error, result, labels, times, calls

vars == <<route, method, form, status, error, result, labels, times, calls>>

(***************************************************************************)
(* Values                                                                  *)
(***************************************************************************)
RECURSIVE Gcd(_, _)
Gcd(a, b) == IF b = 0 THEN a ELSE Gcd(b, a % b)

Abs(n) == IF n < 0 THEN -n ELSE n

None == [k |-> "none", n |-> 0, d |-> 1]
NaN == [k |-> "nan", n |-> 0, d |-> 1]
PosInf == [k |-> "inf", n |-> 1, d |-> 1]
NegInf == [k |-> "inf", n |-> -1, d |-> 1]
\* An exception raised while evaluating an expression.
Raised(name) == [k |-> "exc", n |-> 0, d |-> 1, e |-> name]

\* The rational n/d (d # 0) in lowest terms with a positive denominator.
Rat(n, d) ==
    LET g == Gcd(Abs(n), Abs(d))
        s == IF d < 0 THEN -1 ELSE 1
    IN  [k |-> "fin", n |-> s * (n \div g), d |-> s * (d \div g)]

IntV(n) == [k |-> "fin", n |-> n, d |-> 1]

IsFin(x) == x.k = "fin"
IsNaN(x) == x.k = "nan"
IsInf(x) == x.k = "inf"
IsExc(x) == x.k = "exc"
IsNone(x) == x.k = "none"

\* Sign of a non-NaN number: -1, 0 or 1.
Sgn(x) == IF x.n > 0 THEN 1 ELSE IF x.n < 0 THEN -1 ELSE 0

\* Python truthiness of "float | None": None and 0.0 are falsy, NaN is truthy.
Falsy(x) == IsNone(x) \/ (IsFin(x) /\ x.n = 0)

\* IEEE comparisons: every comparison with NaN is false.
Lt(a, b) ==
    IF IsNaN(a) \/ IsNaN(b) THEN FALSE
    ELSE IF IsInf(a) \/ IsInf(b)
         THEN (IF IsInf(a) THEN 2 * a.n ELSE 0) < (IF IsInf(b) THEN 2 * b.n ELSE 0)
         ELSE a.n * b.d < b.n * a.d
Gt(a, b) == Lt(b, a)
Le(a, b) ==
    IF IsNaN(a) \/ IsNaN(b) THEN FALSE
    ELSE IF IsInf(a) \/ IsInf(b)
         THEN (IF IsInf(a) THEN 2 * a.n ELSE 0) <= (IF IsInf(b) THEN 2 * b.n ELSE 0)
         ELSE a.n * b.d <= b.n * a.d
Ge(a, b) == Le(b, a)

Neg(a) == IF IsFin(a) \/ IsInf(a) THEN [a EXCEPT !.n = -a.n] ELSE a

Add(a, b) ==
    IF IsExc(a) THEN a ELSE IF IsExc(b) THEN b
    ELSE IF IsNaN(a) \/ IsNaN(b) THEN NaN
    ELSE IF IsInf(a) /\ IsInf(b) THEN (IF a.n = b.n THEN a ELSE NaN)
    ELSE IF IsInf(a) THEN a
    ELSE IF IsInf(b) THEN b
    ELSE LET g == Gcd(a.d, b.d)
         IN  Rat(a.n * (b.d \div g) + b.n * (a.d \div g), (a.d \div g) * b.d)

Sub(a, b) == Add(a, Neg(b))

Mul(a, b) ==
    IF IsExc(a) THEN a ELSE IF IsExc(b) THEN b
    ELSE IF IsNaN(a) \/ IsNaN(b) THEN NaN
    ELSE IF IsInf(a) \/ IsInf(b)
         THEN (IF Sgn(a) * Sgn(b) = 0 THEN NaN
               ELSE IF Sgn(a) * Sgn(b) > 0 THEN PosInf ELSE NegInf)
    ELSE LET g1 == Gcd(Abs(a.n), b.d)
             g2 == Gcd(Abs(b.n), a.d)
         IN  Rat((a.n \div g1) * (b.n \div g2), (a.d \div g2) * (b.d \div g1))

\* Python float division: a zero divisor raises ZeroDivisionError.
Div(a, b) ==
    IF IsExc(a) THEN a ELSE IF IsExc(b) THEN b
    ELSE IF IsFin(b) /\ b.n = 0 THEN Raised("ZeroDivisionError")
    ELSE IF IsNaN(a) \/ IsNaN(b) THEN NaN
    ELSE IF IsInf(a) /\ IsInf(b) THEN NaN
    ELSE IF IsInf(a) THEN (IF Sgn(a) * Sgn(b) > 0 THEN PosInf ELSE NegInf)
    ELSE IF IsInf(b) THEN IntV(0)
    ELSE Mul(a, Rat(b.d, b.n))

\* Built-in min/max of two arguments: the second wins only if it compares
\* strictly smaller / larger, so a NaN in second position is dropped.
Min2(a, b) == IF Lt(b, a) THEN b ELSE a
Max2(a, b) == IF Gt(b, a) THEN b ELSE a

AbsV(a) == IF (IsFin(a) \/ IsInf(a)) /\ a.n < 0 THEN Neg(a) ELSE a

\* Nearest integer to the rational n/d (d > 0), ties to the even neighbour.
HalfEven(n, d) ==
    LET q == n \div d
        r == n - q * d
    IN  IF 2 * r < d THEN q
        ELSE IF 2 * r > d THEN q + 1
        ELSE IF q % 2 = 0 THEN q ELSE q + 1

clamp(x, lo, hi) == Max2(lo, Min2(hi, x))

\* round(x, 1): NaN and infinities pass through unchanged.
round1(x) ==
    IF IsExc(x) THEN x
    ELSE IF IsFin(x) THEN Rat(HalfEven(10 * x.n, x.d), 10)
    ELSE x

\* int(round(x)): round() of NaN raises ValueError, of an infinity OverflowError.
round0(x) ==
    IF IsExc(x) THEN x
    ELSE IF IsNaN(x) THEN Raised("ValueError")
    ELSE IF IsInf(x) THEN Raised("OverflowError")
    ELSE IntV(HalfEven(x.n, x.d))

(***************************************************************************)
(* Strings and parsing (to_float, to_int)                                  *)
(***************************************************************************)
Digits == {"0", "1", "2", "3", "4", "5", "6", "7", "8", "9"}

DigitVal(c) ==
    CASE c = "0" -> 0 [] c = "1" -> 1 [] c = "2" -> 2 [] c = "3" -> 3
      [] c = "4" -> 4 [] c = "5" -> 5 [] c = "6" -> 6 [] c = "7" -> 7
      [] c = "8" -> 8 [] c = "9" -> 9

\* str.lower() on the letters that occur in the inputs.
Lower(c) ==
    CASE c = "N" -> "n" [] c = "A" -> "a" [] c = "I" -> "i" [] c = "F" -> "f"
      [] OTHER -> c

LowerStr(s) == [i \in 1..Len(s) |-> Lower(s[i])]

\* str.strip(): drop leading and trailing white space.
RECURSIVE StripL(_)
StripL(s) == IF s # <<>> /\ Head(s) = " " THEN StripL(Tail(s)) ELSE s

RECURSIVE StripR(_)
StripR(s) ==
    IF s # <<>> /\ s[Len(s)] = " " THEN StripR(SubSeq(s, 1, Len(s) - 1)) ELSE s

Strip(s) == StripR(StripL(s))

AllDigits(s) == \A i \in 1..Len(s) : s[i] \in Digits

\* Value of a (possibly empty) digit string.
RECURSIVE DigitsVal(_)
DigitsVal(s) ==
    IF s = <<>> THEN 0
    ELSE 10 * DigitsVal(SubSeq(s, 1, Len(s) - 1)) + DigitVal(s[Len(s)])

RECURSIVE Pow10(_)
Pow10(e) == IF e = 0 THEN 1 ELSE 10 * Pow10(e - 1)

HasSign(s) == s # <<>> /\ Head(s) \in {"+", "-"}
SignOf(s) == IF s # <<>> /\ Head(s) = "-" THEN -1 ELSE 1
Unsigned(s) == IF HasSign(s) THEN Tail(s) ELSE s

\* Position of the first "." in s, 0 if there is none.
DotPos(s) ==
    IF \E i \in 1..Len(s) : s[i] = "."
    THEN CHOOSE i \in 1..Len(s) : s[i] = "." /\ \A j \in 1..(i - 1) : s[j] # "."
    ELSE 0

\* float(str(s).strip()) with every exception mapped to None.  Grammar of
\* float(): [sign] (nan | inf | infinity | digits [. [digits]] | . digits),
\* letters in any case.  Exponents and digit-group underscores need the
\* characters "e" and "_", which the modelled inputs do not contain.
to_float(s) ==
    LET t == Strip(s)
        u == Unsigned(t)
        l == LowerStr(u)
        p == DotPos(u)
        ip == IF p = 0 THEN u ELSE SubSeq(u, 1, p - 1)
        fp == IF p = 0 THEN <<>> ELSE SubSeq(u, p + 1, Len(u))
    IN  IF l = <<"n", "a", "n">> THEN NaN
        ELSE IF l = <<"i", "n", "f">>
                \/ l = <<"i", "n", "f", "i", "n", "i", "t", "y">>
             THEN (IF SignOf(t) < 0 THEN NegInf ELSE PosInf)
        ELSE IF AllDigits(ip) /\ AllDigits(fp) /\ Len(ip) + Len(fp) > 0
             THEN Rat(SignOf(t) * (DigitsVal(ip) * Pow10(Len(fp)) + DigitsVal(fp)),
                      Pow10(Len(fp)))
        ELSE None

\* int(str(s).strip()) with every exception mapped to None: [sign] digits.
to_int(s) ==
    LET t == Strip(s)
        u == Unsigned(t)
    IN  IF u # <<>> /\ AllDigits(u) THEN IntV(SignOf(t) * DigitsVal(u)) ELSE None

(***************************************************************************)
(* Formula functions                                                       *)
(***************************************************************************)
\* The decimal literal n / 10^e of the source text.
Lit(n, e) == Rat(n, Pow10(e))

mifflin_st_jeor(sex, age, height_cm, weight_kg) ==
    LET base == Sub(Add(Mul(IntV(10), weight_kg), Mul(Lit(625, 2), height_cm)),
                    Mul(IntV(5), age))
    IN  Add(base, IF sex = "male" THEN IntV(5) ELSE IntV(-161))

\* bmi_category_cn with the thresholds compared by <= instead of <.
bmi_category_cn_le(b) ==
    IF Le(b, Lit(185, 1)) THEN "underweight"
    ELSE IF Le(b, Lit(240, 1)) THEN "normal"
    ELSE IF Le(b, Lit(280, 1)) THEN "overweight"
    ELSE "obese"

\* Labels stand for the Chinese texts of the source:
\* underweight, normal, overweight, obese.
bmi_category_cn(b) ==
    IF Lt(b, Lit(185, 1)) THEN "underweight"
    ELSE IF Lt(b, Lit(240, 1)) THEN "normal"
    ELSE IF Lt(b, Lit(280, 1)) THEN "overweight"
    ELSE "obese"

bmi_progress(b) ==
    LET p == Mul(Div(Sub(b, IntV(15)), Sub(IntV(35), IntV(15))), IntV(100))
    IN  round0(clamp(p, IntV(0), IntV(100)))

\* floor(log10(x)) of a finite x > 0.
RECURSIVE ILog10(_)
ILog10(x) ==
    IF Ge(x, IntV(10)) THEN ILog10(Div(x, IntV(10))) + 1
    ELSE IF Lt(x, IntV(1)) THEN ILog10(Mul(x, IntV(10))) - 1
    ELSE 0

\* Number of sample points per decade at which log10 is evaluated.
LogSteps == 4

\* math.log10(x): ValueError for x <= 0 and -inf, NaN for NaN, inf for inf.
\* For a finite x > 0 the value is transcendental; it is the point number q
\* (0 <= q < LogSteps) of the decade [floor(log10 x), floor(log10 x) + 1),
\* q being chosen by the caller over all of 0..LogSteps-1.
log10(x, q) ==
    IF IsExc(x) THEN x
    ELSE IF IsNaN(x) THEN NaN
    ELSE IF x = PosInf THEN PosInf
    ELSE IF Le(x, IntV(0)) THEN Raised("ValueError")
    ELSE Rat(LogSteps * ILog10(x) + q, LogSteps)

bodyfat_us_navy(sex, height_cm, neck_cm, waist_cm, hip_cm, q1, q2) ==
    LET h == height_cm
        n == neck_cm
        w == waist_cm
    IN  IF sex = "male"
        THEN Sub(Div(IntV(495),
                     Add(Sub(Lit(10324, 4), Mul(Lit(19077, 5), log10(Sub(w, n), q1))),
                         Mul(Lit(15456, 5), log10(h, q2)))),
                 IntV(450))
        ELSE IF IsNone(hip_cm) THEN Raised("ValueError")
        ELSE Sub(Div(IntV(495),
                     Add(Sub(Lit(129579, 5),
                             Mul(Lit(35004, 5), log10(Sub(Add(w, hip_cm), n), q1))),
                         Mul(Lit(22100, 5), log10(h, q2)))),
                 IntV(450))

ideal_weight_methods(height_cm, sex) ==
    LET h_in == Div(height_cm, Lit(254, 2))
        over_5ft == Max2(IntV(0), Sub(h_in, IntV(60)))
        devine == IF sex = "male" THEN Add(IntV(50), Mul(Lit(23, 1), over_5ft))
                  ELSE Add(Lit(455, 1), Mul(Lit(23, 1), over_5ft))
        robinson == IF sex = "male" THEN Add(IntV(52), Mul(Lit(19, 1), over_5ft))
                    ELSE Add(IntV(49), Mul(Lit(17, 1), over_5ft))
        miller == IF sex = "male" THEN Add(Lit(562, 1), Mul(Lit(141, 2), over_5ft))
                  ELSE Add(Lit(531, 1), Mul(Lit(136, 2), over_5ft))
        hamwi == IF sex = "male" THEN Add(IntV(48), Mul(Lit(27, 1), over_5ft))
                 ELSE Add(Lit(455, 1), Mul(Lit(22, 1), over_5ft))
        avg == Div(Add(Add(Add(devine, robinson), miller), hamwi), IntV(4))
    IN  [Devine |-> devine, Robinson |-> robinson, Miller |-> miller,
         Hamwi |-> hamwi, Average |-> avg]

\* waist_risk with the thresholds compared by <= instead of <.
waist_risk_le(wc_cm, height_cm) ==
    LET whtr == Div(wc_cm, height_cm)
    IN  <<whtr,
          IF Le(whtr, Lit(5, 1)) THEN "good"
          ELSE IF Le(whtr, Lit(6, 1)) THEN "attention"
          ELSE "high">>

\* Labels stand for the Chinese texts of the source: good, attention, high.
waist_risk(wc_cm, height_cm) ==
    LET whtr == Div(wc_cm, height_cm)
    IN  <<whtr,
          IF Lt(whtr, Lit(5, 1)) THEN "good"
          ELSE IF Lt(whtr, Lit(6, 1)) THEN "attention"
          ELSE "high">>

protein_grams(weight_kg, goal) ==
    IF goal = "fat_loss" THEN <<Mul(weight_kg, Lit(16, 1)), "fat_loss_phase">>
    ELSE IF goal = "muscle_gain" THEN <<Mul(weight_kg, Lit(18, 1)), "muscle_gain_phase">>
    ELSE <<Mul(weight_kg, Lit(12, 1)), "daily_maintenance">>

steps_to_kcal(steps, weight_kg) ==
    LET kcal_per_step == Mul(Lit(5, 2), Div(weight_kg, IntV(60)))
    IN  Mul(steps, kcal_per_step)

deficit_delta(mode) ==
    IF mode = "loss_fast" THEN -500
    ELSE IF mode = "loss_easy" THEN -300
    ELSE IF mode = "gain" THEN 250
    ELSE 0

deficit_label(mode) ==
    IF mode = "loss_fast" THEN "loss_fast_label"
    ELSE IF mode = "loss_easy" THEN "loss_easy_label"
    ELSE IF mode = "gain" THEN "gain_label"
    ELSE "maintain_label"

\* deficit_plan without the floor of 1200.
deficit_plan_nofloor(tdee, mode) ==
    <<round0(Add(tdee, IntV(deficit_delta(mode)))), deficit_label(mode)>>

deficit_plan(tdee, mode) ==
    LET r == round0(Add(tdee, IntV(deficit_delta(mode))))
    IN  <<IF IsExc(r) THEN r ELSE Max2(IntV(1200), r), deficit_label(mode)>>

weeks_to_goal(current_kg, target_kg, rate_kg_per_week) ==
    LET diff == AbsV(Sub(target_kg, current_kg))
    IN  IF Le(rate_kg_per_week, IntV(0)) THEN PosInf
        ELSE Div(diff, rate_kg_per_week)

(***************************************************************************)
(* Requests and responses                                                  *)
(***************************************************************************)
\* A form field is absent or carries a string.
Missing == [present |-> FALSE, s |-> <<>>]
Given(s) == [present |-> TRUE, s |-> s]
\* An absent field whose values are compared as whole strings (an enumeration).
MissingE == [present |-> FALSE, s |-> ""]

\* request.form.get(name, default)
form_get(f, name, default) ==
    IF name \in DOMAIN f /\ f[name].present THEN f[name].s ELSE default

\* error = None
NoError == "None"
\* A label variable holding None (or the empty suggestion list).
Unset == "None"

NoCalls == <<>>
Call(fn, args) == [fn |-> fn, args |-> args]

\* What the handler hands to render_template, or the exception that left
\* the handler before it got there (Flask answers 500, nothing is rendered).
Outcome(err, res, lab, tms, cl) ==
    IF \E x \in DOMAIN res : IsExc(res[x])
    THEN [status |-> "exception", error |-> NoError,
          result |-> [x \in DOMAIN res |-> None],
          labels |-> [x \in DOMAIN lab |-> Unset], times |-> <<>>, calls |-> cl]
    ELSE [status |-> "rendered", error |-> err, result |-> res, labels |-> lab,
          times |-> tms, calls |-> cl]

NoneOf(fields) == [x \in fields |-> None]
UnsetOf(fields) == [x \in fields |-> Unset]

(***************************************************************************)
(* Handlers: the response computed for method m and form f                 *)
(***************************************************************************)
BmiFields == {"bmi", "progress", "ideal_min", "ideal_max", "to_min", "to_max"}
BmiLabels == {"category", "suggestions"}

bmi_suggestions(bmi_raw) ==
    IF Lt(bmi_raw, Lit(185, 1)) THEN "tips_underweight"
    ELSE IF Lt(bmi_raw, Lit(240, 1)) THEN "tips_normal"
    ELSE IF Lt(bmi_raw, Lit(280, 1)) THEN "tips_overweight"
    ELSE "tips_obese"

bmi(m, f) ==
    LET h == to_float(form_get(f, "height_cm", <<>>))
        w == to_float(form_get(f, "weight_kg", <<>>))
        hm == Div(h, IntV(100))
        bmi_raw == Div(w, Mul(hm, hm))
        ideal_min == round1(Mul(Mul(Lit(185, 1), hm), hm))
        ideal_max == round1(Mul(Mul(Lit(239, 1), hm), hm))
    IN  IF m # "POST" THEN Outcome(NoError, NoneOf(BmiFields), UnsetOf(BmiLabels), <<>>, NoCalls)
        ELSE IF Falsy(h) \/ Falsy(w) \/ Le(h, IntV(0)) \/ Le(w, IntV(0))
        THEN Outcome("ERR_HEIGHT_WEIGHT", NoneOf(BmiFields), UnsetOf(BmiLabels), <<>>, NoCalls)
        ELSE Outcome(NoError,
                     [bmi |-> round1(bmi_raw),
                      progress |-> bmi_progress(bmi_raw),
                      ideal_min |-> ideal_min,
                      ideal_max |-> ideal_max,
                      to_min |-> IF Lt(bmi_raw, Lit(185, 1))
                                 THEN round1(Sub(ideal_min, w)) ELSE None,
                      to_max |-> IF ~Lt(bmi_raw, Lit(185, 1)) /\ Gt(bmi_raw, Lit(239, 1))
                                 THEN round1(Sub(w, ideal_max)) ELSE None],
                     [category |-> bmi_category_cn(bmi_raw),
                      suggestions |-> bmi_suggestions(bmi_raw)],
                     <<>>,
                     <<Call("bmi_category_cn", <<bmi_raw>>)>>)

\* The validation chain shared by /bmr and /calorie (sex, age, height, weight);
\* NoError when all four pass.
person_error(sex_in, age, h, w) ==
    IF sex_in \notin {"male", "female"} THEN "ERR_SEX"
    ELSE IF IsNone(age) \/ Le(age, IntV(0)) \/ Gt(age, IntV(120)) THEN "ERR_AGE"
    ELSE IF Falsy(h) \/ Le(h, IntV(0)) \/ Gt(h, IntV(250)) THEN "ERR_HEIGHT"
    ELSE IF Falsy(w) \/ Le(w, IntV(0)) \/ Gt(w, IntV(300)) THEN "ERR_WEIGHT"
    ELSE NoError

bmr(m, f) ==
    LET sex_in == form_get(f, "sex", "male")
        age == to_int(form_get(f, "age", <<>>))
        h == to_float(form_get(f, "height_cm", <<>>))
        w == to_float(form_get(f, "weight_kg", <<>>))
        err == person_error(sex_in, age, h, w)
    IN  IF m # "POST" THEN Outcome(NoError, NoneOf({"bmr"}), UnsetOf({}), <<>>, NoCalls)
        ELSE IF err # NoError THEN Outcome(err, NoneOf({"bmr"}), UnsetOf({}), <<>>, NoCalls)
        ELSE Outcome(NoError,
                     [bmr |-> round0(mifflin_st_jeor(sex_in, age, h, w))],
                     UnsetOf({}), <<>>,
                     <<Call("mifflin_st_jeor", <<age, h, w>>)>>)

\* calorie with the activity bounds exclusive (<= 1.1 and >= 2.5 rejected).
calorie_exclusive(m, f) ==
    LET sex_in == form_get(f, "sex", "male")
        age == to_int(form_get(f, "age", <<>>))
        h == to_float(form_get(f, "height_cm", <<>>))
        w == to_float(form_get(f, "weight_kg", <<>>))
        act == to_float(form_get(f, "activity", <<"1", ".", "2">>))
        err == person_error(sex_in, age, h, w)
    IN  IF m # "POST" THEN Outcome(NoError, NoneOf({"tdee"}), UnsetOf({}), <<>>, NoCalls)
        ELSE IF err # NoError THEN Outcome(err, NoneOf({"tdee"}), UnsetOf({}), <<>>, NoCalls)
        ELSE IF Falsy(act) \/ Le(act, Lit(11, 1)) \/ Ge(act, Lit(25, 1))
        THEN Outcome("ERR_ACTIVITY", NoneOf({"tdee"}), UnsetOf({}), <<>>, NoCalls)
        ELSE Outcome(NoError,
                     [tdee |-> round0(Mul(mifflin_st_jeor(sex_in, age, h, w), act))],
                     UnsetOf({}), <<>>,
                     <<Call("mifflin_st_jeor", <<age, h, w>>)>>)

calorie(m, f) ==
    LET sex_in == form_get(f, "sex", "male")
        age == to_int(form_get(f, "age", <<>>))
        h == to_float(form_get(f, "height_cm", <<>>))
        w == to_float(form_get(f, "weight_kg", <<>>))
        act == to_float(form_get(f, "activity", <<"1", ".", "2">>))
        err == person_error(sex_in, age, h, w)
    IN  IF m # "POST" THEN Outcome(NoError, NoneOf({"tdee"}), UnsetOf({}), <<>>, NoCalls)
        ELSE IF err # NoError THEN Outcome(err, NoneOf({"tdee"}), UnsetOf({}), <<>>, NoCalls)
        ELSE IF Falsy(act) \/ Lt(act, Lit(11, 1)) \/ Gt(act, Lit(25, 1))
        THEN Outcome("ERR_ACTIVITY", NoneOf({"tdee"}), UnsetOf({}), <<>>, NoCalls)
        ELSE Outcome(NoError,
                     [tdee |-> round0(Mul(mifflin_st_jeor(sex_in, age, h, w), act))],
                     UnsetOf({}), <<>>,
                     <<Call("mifflin_st_jeor", <<age, h, w>>)>>)

\* water with the amounts computed before the weight is validated.
water_early(m, f) ==
    LET w == to_float(form_get(f, "weight_kg", <<>>))
        water_ml == IF IsFin(w) THEN round0(Mul(w, IntV(33))) ELSE None
        water_l == IF IsFin(w) THEN round1(Div(water_ml, IntV(1000))) ELSE None
    IN  IF m # "POST"
        THEN Outcome(NoError, NoneOf({"water_ml", "water_l"}), UnsetOf({}), <<>>, NoCalls)
        ELSE IF Falsy(w) \/ Le(w, IntV(0)) \/ Gt(w, IntV(300))
        THEN Outcome("ERR_WEIGHT", [water_ml |-> water_ml, water_l |-> water_l],
                     UnsetOf({}), <<>>, NoCalls)
        ELSE Outcome(NoError, [water_ml |-> water_ml, water_l |-> water_l],
                     UnsetOf({}), <<>>, NoCalls)

water(m, f) ==
    LET w == to_float(form_get(f, "weight_kg", <<>>))
        water_ml == round0(Mul(w, IntV(33)))
    IN  IF m # "POST"
        THEN Outcome(NoError, NoneOf({"water_ml", "water_l"}), UnsetOf({}), <<>>, NoCalls)
        ELSE IF Falsy(w) \/ Le(w, IntV(0)) \/ Gt(w, IntV(300))
        THEN Outcome("ERR_WEIGHT", NoneOf({"water_ml", "water_l"}), UnsetOf({}), <<>>, NoCalls)
        ELSE Outcome(NoError,
                     [water_ml |-> water_ml,
                      water_l |-> round1(Div(water_ml, IntV(1000)))],
                     UnsetOf({}), <<>>, NoCalls)

\* Position of the first ":" in s, 0 if there is none.
ColonPos(s) ==
    IF \E i \in 1..Len(s) : s[i] = ":"
    THEN CHOOSE i \in 1..Len(s) : s[i] = ":" /\ \A j \in 1..(i - 1) : s[j] # ":"
    ELSE 0

\* sleep.parse_hm: <<h, m>> as integers, or <<>> for None.
parse_hm(s0) ==
    LET s == Strip(s0)
        p == ColonPos(s)
        h == to_int(SubSeq(s, 1, p - 1))
        mi == to_int(SubSeq(s, p + 1, Len(s)))
    IN  IF p = 0 THEN <<>>
        ELSE IF IsNone(h) \/ IsNone(mi) THEN <<>>
        ELSE IF h.n < 0 \/ h.n > 23 \/ mi.n < 0 \/ mi.n > 59 THEN <<>>
        ELSE <<h.n, mi.n>>

DigitChar(n) ==
    CASE n = 0 -> "0" [] n = 1 -> "1" [] n = 2 -> "2" [] n = 3 -> "3"
      [] n = 4 -> "4" [] n = 5 -> "5" [] n = 6 -> "6" [] n = 7 -> "7"
      [] n = 8 -> "8" [] n = 9 -> "9"

\* format(n, "d") of an integer n >= 0.
RECURSIVE Dec(_)
Dec(n) == IF n < 10 THEN <<DigitChar(n)>> ELSE Dec(n \div 10) \o <<DigitChar(n % 10)>>

\* format(n, "02d") of an integer n >= 0.
Dec02(n) == IF n < 10 THEN <<"0">> \o Dec(n) ELSE Dec(n)

\* sleep.fmt
fmt(h, mi) == Dec02(h) \o <<":">> \o Dec02(mi)

MinutesPerDay == 1440

\* add_minutes wrapping at twelve hours instead of twenty-four.
add_minutes_12h(h, mi, minutes) ==
    LET total == (h * 60 + mi + minutes) % (12 * 60)
    IN  <<total \div 60, total % 60>>

\* sleep.add_minutes
add_minutes(h, mi, minutes) ==
    LET total == (h * 60 + mi + minutes) % MinutesPerDay
    IN  <<total \div 60, total % 60>>

buffer_min == 15
cycle == 90
options == <<3, 4, 5, 6>>

\* sleep with the fall-asleep buffer added instead of subtracted when the
\* input is a wake time.
sleep_buffer_sign(m, f) ==
    LET mode_in == form_get(f, "mode", "sleep_now")
        hm == parse_hm(form_get(f, "time_hm", <<>>))
        start == add_minutes(hm[1], hm[2], buffer_min)
        wake(c) == add_minutes(start[1], start[2], c * cycle)
        bed(c) == add_minutes(hm[1], hm[2], -(c * cycle) + buffer_min)
    IN  IF m # "POST" THEN Outcome(NoError, NoneOf({}), UnsetOf({}), <<>>, NoCalls)
        ELSE IF hm = <<>>
        THEN Outcome("ERR_TIME", NoneOf({}), UnsetOf({}), <<>>, NoCalls)
        ELSE IF mode_in = "sleep_now"
        THEN Outcome(NoError, NoneOf({}), UnsetOf({}),
                     [i \in 1..Len(options) |-> fmt(wake(options[i])[1], wake(options[i])[2])],
                     NoCalls)
        ELSE Outcome(NoError, NoneOf({}), UnsetOf({}),
                     [i \in 1..Len(options) |-> fmt(bed(options[i])[1], bed(options[i])[2])],
                     NoCalls)

sleep(m, f) ==
    LET mode_in == form_get(f, "mode", "sleep_now")
        hm == parse_hm(form_get(f, "time_hm", <<>>))
        start == add_minutes(hm[1], hm[2], buffer_min)
        wake(c) == add_minutes(start[1], start[2], c * cycle)
        bed(c) == add_minutes(hm[1], hm[2], -(c * cycle) - buffer_min)
    IN  IF m # "POST" THEN Outcome(NoError, NoneOf({}), UnsetOf({}), <<>>, NoCalls)
        ELSE IF hm = <<>>
        THEN Outcome("ERR_TIME", NoneOf({}), UnsetOf({}), <<>>, NoCalls)
        ELSE IF mode_in = "sleep_now"
        THEN Outcome(NoError, NoneOf({}), UnsetOf({}),
                     [i \in 1..Len(options) |-> fmt(wake(options[i])[1], wake(options[i])[2])],
                     NoCalls)
        ELSE Outcome(NoError, NoneOf({}), UnsetOf({}),
                     [i \in 1..Len(options) |-> fmt(bed(options[i])[1], bed(options[i])[2])],
                     NoCalls)

\* str(e) of an exception raised by the formula code.
ExcText(x) == x.e

bodyfat(m, f, q1, q2) ==
    LET sex_in == form_get(f, "sex", "male")
        hip_cm_in == form_get(f, "hip_cm", <<>>)
        h == to_float(form_get(f, "height_cm", <<>>))
        n == to_float(form_get(f, "neck_cm", <<>>))
        w == to_float(form_get(f, "waist_cm", <<>>))
        hip == IF Strip(hip_cm_in) # <<>> THEN to_float(hip_cm_in) ELSE None
        bf_val == bodyfat_us_navy(sex_in, h, n, w, hip, q1, q2)
        bf == round1(clamp(bf_val, IntV(2), IntV(60)))
        fail(msg) == Outcome(msg, NoneOf({"bf"}), UnsetOf({}), <<>>, NoCalls)
        called == <<Call("bodyfat_us_navy", <<h, n, w, hip>>)>>
    IN  IF m # "POST" THEN Outcome(NoError, NoneOf({"bf"}), UnsetOf({}), <<>>, NoCalls)
        ELSE IF sex_in \notin {"male", "female"} THEN fail("ERR_SEX")
        ELSE IF Falsy(h) \/ Le(h, IntV(0)) THEN fail("ERR_HEIGHT")
        ELSE IF Falsy(n) \/ Le(n, IntV(0)) THEN fail("ERR_NECK")
        ELSE IF Falsy(w) \/ Le(w, IntV(0)) THEN fail("ERR_WAIST")
        ELSE IF sex_in = "female" /\ (IsNone(hip) \/ Le(hip, IntV(0))) THEN fail("ERR_HIP")
        ELSE IF Le(Sub(w, n), IntV(0)) THEN fail("ERR_WAIST_LE_NECK")
        ELSE IF IsExc(bf_val)
        THEN Outcome(ExcText(bf_val), NoneOf({"bf"}), UnsetOf({}), <<>>, called)
        ELSE Outcome(NoError, [bf |-> bf], UnsetOf({}), <<>>, called)

IdealFields == {"Devine", "Robinson", "Miller", "Hamwi", "Average"}

ideal_weight(m, f) ==
    LET sex_in == form_get(f, "sex", "male")
        h == to_float(form_get(f, "height_cm", <<>>))
        res == ideal_weight_methods(h, sex_in)
    IN  IF m # "POST" THEN Outcome(NoError, NoneOf(IdealFields), UnsetOf({}), <<>>, NoCalls)
        ELSE IF sex_in \notin {"male", "female"}
        THEN Outcome("ERR_SEX", NoneOf(IdealFields), UnsetOf({}), <<>>, NoCalls)
        ELSE IF Falsy(h) \/ Le(h, IntV(0)) \/ Gt(h, IntV(250))
        THEN Outcome("ERR_HEIGHT", NoneOf(IdealFields), UnsetOf({}), <<>>, NoCalls)
        ELSE Outcome(NoError, [x \in IdealFields |-> round1(res[x])], UnsetOf({}), <<>>,
                     NoCalls)

waist(m, f) ==
    LET wc == to_float(form_get(f, "waist_cm", <<>>))
        h == to_float(form_get(f, "height_cm", <<>>))
        r == waist_risk(wc, h)
    IN  IF m # "POST" THEN Outcome(NoError, NoneOf({"whtr"}), UnsetOf({"level"}), <<>>, NoCalls)
        ELSE IF Falsy(wc) \/ Le(wc, IntV(0))
        THEN Outcome("ERR_WAIST", NoneOf({"whtr"}), UnsetOf({"level"}), <<>>, NoCalls)
        ELSE IF Falsy(h) \/ Le(h, IntV(0))
        THEN Outcome("ERR_HEIGHT", NoneOf({"whtr"}), UnsetOf({"level"}), <<>>, NoCalls)
        ELSE Outcome(NoError, [whtr |-> round1(r[1])], [level |-> r[2]], <<>>,
                     <<Call("waist_risk", <<wc, h>>)>>)

protein(m, f) ==
    LET w == to_float(form_get(f, "weight_kg", <<>>))
        goal_in == form_get(f, "goal", "maintain")
        r == protein_grams(w, goal_in)
    IN  IF m # "POST" THEN Outcome(NoError, NoneOf({"grams"}), UnsetOf({"label"}), <<>>, NoCalls)
        ELSE IF Falsy(w) \/ Le(w, IntV(0)) \/ Gt(w, IntV(300))
        THEN Outcome("ERR_WEIGHT", NoneOf({"grams"}), UnsetOf({"label"}), <<>>, NoCalls)
        ELSE IF goal_in \notin {"maintain", "fat_loss", "muscle_gain"}
        THEN Outcome("ERR_GOAL", NoneOf({"grams"}), UnsetOf({"label"}), <<>>, NoCalls)
        ELSE Outcome(NoError, [grams |-> round0(r[1])], [label |-> r[2]], <<>>,
                     <<Call("protein_grams", <<w>>)>>)

steps(m, f) ==
    LET s == to_int(form_get(f, "steps", <<>>))
        w == to_float(form_get(f, "weight_kg", <<>>))
    IN  IF m # "POST" THEN Outcome(NoError, NoneOf({"kcal"}), UnsetOf({}), <<>>, NoCalls)
        ELSE IF IsNone(s) \/ Le(s, IntV(0)) \/ Gt(s, IntV(200000))
        THEN Outcome("ERR_STEPS", NoneOf({"kcal"}), UnsetOf({}), <<>>, NoCalls)
        ELSE IF Falsy(w) \/ Le(w, IntV(0)) \/ Gt(w, IntV(300))
        THEN Outcome("ERR_WEIGHT", NoneOf({"kcal"}), UnsetOf({}), <<>>, NoCalls)
        ELSE Outcome(NoError, [kcal |-> round0(steps_to_kcal(s, w))], UnsetOf({}), <<>>,
                     <<Call("steps_to_kcal", <<s, w>>)>>)

deficit(m, f) ==
    LET tdee_val == to_float(form_get(f, "tdee", <<>>))
        mode_in == form_get(f, "mode", "loss_easy")
        r == deficit_plan(tdee_val, mode_in)
    IN  IF m # "POST"
        THEN Outcome(NoError, NoneOf({"target_kcal"}), UnsetOf({"label"}), <<>>, NoCalls)
        ELSE IF Falsy(tdee_val) \/ Le(tdee_val, IntV(0)) \/ Gt(tdee_val, IntV(10000))
        THEN Outcome("ERR_TDEE", NoneOf({"target_kcal"}), UnsetOf({"label"}), <<>>, NoCalls)
        ELSE IF mode_in \notin {"loss_easy", "loss_fast", "maintain", "gain"}
        THEN Outcome("ERR_MODE", NoneOf({"target_kcal"}), UnsetOf({"label"}), <<>>, NoCalls)
        ELSE Outcome(NoError, [target_kcal |-> r[1]], [label |-> r[2]], <<>>,
                     <<Call("deficit_plan", <<tdee_val>>)>>)

goal_time(m, f) ==
    LET c == to_float(form_get(f, "current_kg", <<>>))
        t == to_float(form_get(f, "target_kg", <<>>))
        r == to_float(form_get(f, "rate", <<"0", ".", "5">>))
    IN  IF m # "POST" THEN Outcome(NoError, NoneOf({"weeks"}), UnsetOf({}), <<>>, NoCalls)
        ELSE IF Falsy(c) \/ Le(c, IntV(0)) \/ Gt(c, IntV(300))
        THEN Outcome("ERR_CURRENT", NoneOf({"weeks"}), UnsetOf({}), <<>>, NoCalls)
        ELSE IF Falsy(t) \/ Le(t, IntV(0)) \/ Gt(t, IntV(300))
        THEN Outcome("ERR_TARGET", NoneOf({"weeks"}), UnsetOf({}), <<>>, NoCalls)
        ELSE IF Falsy(r) \/ Le(r, IntV(0)) \/ Gt(r, IntV(2))
        THEN Outcome("ERR_RATE", NoneOf({"weeks"}), UnsetOf({}), <<>>, NoCalls)
        ELSE Outcome(NoError, [weeks |-> round1(weeks_to_goal(c, t, r))], UnsetOf({}), <<>>,
                     <<Call("weeks_to_goal", <<c, t, r>>)>>)

(***************************************************************************)
(* Submitted forms                                                         *)
(***************************************************************************)
\* The decimal numeral of t/10 with one fractional digit, e.g. 185 -> "18.5".
Dec1(t) == Dec(t \div 10) \o <<".">> \o Dec(t % 10)
\* The decimal numeral of c/100 with two fractional digits, e.g. 109 -> "1.09".
Dec2(c) == Dec(c \div 100) \o <<".">> \o Dec((c % 100) \div 10) \o Dec(c % 10)

sNan == <<"n", "a", "n">>
sInf == <<"i", "n", "f">>
sAbc == <<"a", "b", "c">>

\* Field contents no numeric field should accept.
Junk == {Missing, Given(<<>>), Given(sAbc), Given(sNan), Given(sInf)}
NonPositive == {Given(<<"0">>), Given(<<"-", "5">>)}

Ints(S) == {Given(Dec(n)) : n \in S}
Tenths(S) == {Given(Dec1(n)) : n \in S}
Hundredths(S) == {Given(Dec2(n)) : n \in S}

Methods == {"GET", "POST"}
SexIn == {MissingE, Given("male"), Given("female"), Given("other")}

\* The form of a GET request: no field is present.
NoForm(F) == \A x \in DOMAIN F : ~F[x].present

BmiForms ==
    [height_cm : Junk \cup NonPositive \cup Ints({100, 200})
                 \cup {Given(<<" ", "1", "7", "0", " ">>), Given(<<"N", "a", "N">>)},
     weight_kg : Junk \cup NonPositive \cup Ints({24, 28, 60, 74, 96, 112})
                 \cup Tenths({184, 185, 239, 279, 957})]

BmrForms ==
    [sex : SexIn,
     age : {Missing, Given(sAbc), Given(sNan), Given(<<"0">>), Given(<<"3", "0", ".", "5">>)}
           \cup Ints({30, 120, 121}),
     height_cm : Junk \cup NonPositive \cup Ints({1, 170, 250, 251}) \cup Tenths({1655}),
     weight_kg : Junk \cup NonPositive \cup Ints({1, 60, 300, 301}) \cup Tenths({601, 725})]

CalorieForms ==
    [sex : {MissingE, Given("female"), Given("other")},
     age : {Missing, Given(sAbc)} \cup Ints({30, 121}),
     height_cm : {Given(sNan), Given(<<"0">>)} \cup Ints({1, 170, 251}),
     weight_kg : {Given(<<>>), Given(sInf)} \cup Ints({1, 60}) \cup Tenths({601}),
     activity : Junk \cup NonPositive \cup Ints({1, 3})
                \cup Hundredths({109, 110, 120, 155, 250, 251})]

WaterForms ==
    [weight_kg : Junk \cup NonPositive \cup Ints({1, 60, 300, 301}) \cup Tenths({5, 705})]

\* All times of day as HH:MM, and strings that are no time of day.
TimesOfDay == {Given(fmt(h, mi)) : h \in 0..23, mi \in 0..59}
SleepForms ==
    [mode : {MissingE, Given("sleep_now"), Given("wake_up"), Given("other")},
     time_hm : TimesOfDay
               \cup {Missing, Given(<<>>), Given(<<"2", "3", "3", "0">>),
                     Given(<<"2", "4", ":", "0", "0">>), Given(<<"1", "2", ":", "6", "0">>),
                     Given(<<"-", "1", ":", "3", "0">>), Given(<<"a", ":", "b">>),
                     Given(<<" ", "7", ":", "5", " ">>), Given(<<":">>)}]

BodyfatForms ==
    [sex : SexIn,
     height_cm : {Missing, Given(sNan), Given(sInf)} \cup Ints({175}),
     neck_cm : {Given(<<>>), Given(sNan), Given(sInf)} \cup Ints({38}),
     waist_cm : {Given(sNan), Given(sInf), Given(<<"0">>)} \cup Ints({35, 38, 85}),
     hip_cm : {Missing, Given(<<" ">>), Given(sNan), Given(<<"0">>)} \cup Ints({95})]

IdealWeightForms ==
    [sex : SexIn,
     height_cm : Junk \cup NonPositive \cup Ints({150, 152, 170, 250, 251}) \cup Tenths({1524, 1805})]

WaistForms ==
    [waist_cm : Junk \cup NonPositive \cup Ints({60, 80, 85, 102}) \cup Tenths({849, 1019}),
     height_cm : Junk \cup NonPositive \cup Ints({100, 170}) \cup Tenths({1705})]

ProteinForms ==
    [weight_kg : Junk \cup NonPositive \cup Ints({60, 300, 301}) \cup Tenths({625}),
     goal : {MissingE, Given("maintain"), Given("fat_loss"), Given("muscle_gain"),
             Given("bulk")}]

StepsForms ==
    [steps : {Missing, Given(sAbc), Given(sNan), Given(<<"0">>), Given(<<"8", "0", "0", "0", ".", "5">>)}
             \cup Ints({1, 8000, 200000, 200001}),
     weight_kg : Junk \cup NonPositive \cup Ints({60, 300, 301}) \cup Tenths({725})]

\* TDEE inputs lie on a grid of 500 kcal with MaxTdeeK points, each grid
\* point with the offsets 0, 0.5 and 200.5 so that tdee + delta hits integers
\* and halves.
MaxTdeeK == 4
DeficitForms ==
    [tdee : Junk \cup NonPositive
            \cup Ints({500 * j : j \in 1..MaxTdeeK} \cup {1, 1200, 10000, 10001})
            \cup Tenths({5000 * j + o : j \in 1..MaxTdeeK, o \in {5, 2005}}
                        \cup {16995, 100005}),
     mode : {MissingE, Given("loss_fast"), Given("loss_easy"), Given("maintain"),
             Given("gain"), Given("bulk")}]

GoalTimeForms ==
    [current_kg : {Missing, Given(sNan), Given(sInf), Given(<<"0">>)} \cup Ints({70, 300, 301})
                  \cup Tenths({655}),
     target_kg : {Given(<<>>), Given(sNan), Given(<<"-", "5">>)} \cup Ints({65, 70, 80, 301}),
     rate : Junk \cup NonPositive \cup Ints({1, 2, 3}) \cup Tenths({5, 3})
            \cup Hundredths({25, 201}) \cup {Given(<<"-", "i", "n", "f">>)}]

(***************************************************************************)
(* The server: one request is answered per step                            *)
(***************************************************************************)
Init ==
    /\ route = "none"
    /\ method = "GET"
    /\ form = <<>>
    /\ status = "idle"
    /\ error = NoError
    /\ result = <<>>
    /\ labels = <<>>
    /\ times = <<>>
    /\ calls = NoCalls

\* A handler runs on a fresh request: its locals start from their initial
\* values and nothing of an earlier request is visible to it.
Respond(r, m, f, out) ==
    /\ route' = r
    /\ method' = m
    /\ form' = f
    /\ status' = out.status
    /\ error' = out.error
    /\ result' = out.result
    /\ labels' = out.labels
    /\ times' = out.times
    /\ calls' = out.calls

\* A GET carries no form, a POST any form of the handler's fields.
Request(m, f) == m = "GET" => NoForm(f)

Bmi ==
    /\ status = "idle"
    /\ \E m \in Methods, f \in BmiForms : Request(m, f) /\ Respond("/bmi", m, f, bmi(m, f))
Bmr ==
    /\ status = "idle"
    /\ \E m \in Methods, f \in BmrForms : Request(m, f) /\ Respond("/bmr", m, f, bmr(m, f))
Calorie ==
    /\ status = "idle"
    /\ \E m \in Methods, f \in CalorieForms :
        Request(m, f) /\ Respond("/calorie", m, f, calorie(m, f))
Water ==
    /\ status = "idle"
    /\ \E m \in Methods, f \in WaterForms : Request(m, f) /\ Respond("/water", m, f, water(m, f))
Sleep ==
    /\ status = "idle"
    /\ \E m \in Methods, f \in SleepForms : Request(m, f) /\ Respond("/sleep", m, f, sleep(m, f))
Bodyfat ==
    /\ status = "idle"
    /\ \E m \in Methods, f \in BodyfatForms, q1 \in 0..(LogSteps - 1), q2 \in 0..(LogSteps - 1) :
        Request(m, f) /\ Respond("/bodyfat", m, f, bodyfat(m, f, q1, q2))
IdealWeight ==
    /\ status = "idle"
    /\ \E m \in Methods, f \in IdealWeightForms :
        Request(m, f) /\ Respond("/ideal-weight", m, f, ideal_weight(m, f))
Waist ==
    /\ status = "idle"
    /\ \E m \in Methods, f \in WaistForms : Request(m, f) /\ Respond("/waist", m, f, waist(m, f))
Protein ==
    /\ status = "idle"
    /\ \E m \in Methods, f \in ProteinForms :
        Request(m, f) /\ Respond("/protein", m, f, protein(m, f))
Steps ==
    /\ status = "idle"
    /\ \E m \in Methods, f \in StepsForms : Request(m, f) /\ Respond("/steps", m, f, steps(m, f))
Deficit ==
    /\ status = "idle"
    /\ \E m \in Methods, f \in DeficitForms :
        Request(m, f) /\ Respond("/deficit", m, f, deficit(m, f))
GoalTime ==
    /\ status = "idle"
    /\ \E m \in Methods, f \in GoalTimeForms :
        Request(m, f) /\ Respond("/goal-time", m, f, goal_time(m, f))

\* The response has been sent: the request's locals are discarded.
Discard ==
    /\ status # "idle"
    /\ route' = "none"
    /\ method' = "GET"
    /\ form' = <<>>
    /\ status' = "idle"
    /\ error' = NoError
    /\ result' = <<>>
    /\ labels' = <<>>
    /\ times' = <<>>
    /\ calls' = NoCalls

Next ==
    \/ Bmi
    \/ Bmr
    \/ Calorie
    \/ Water
    \/ Sleep
    \/ Bodyfat
    \/ IdealWeight
    \/ Waist
    \/ Protein
    \/ Steps
    \/ Deficit
    \/ GoalTime
    \/ Discard

Spec == Init /\ [][Next]_vars

(***************************************************************************)
(* Properties                                                              *)
(***************************************************************************)
Answered == status # "idle"
Posted == Answered /\ method = "POST"
Rendered == status = "rendered"

\* No result value is set.
NoResult ==
    /\ \A x \in DOMAIN result : result[x] = None
    /\ \A x \in DOMAIN labels : labels[x] = Unset
    /\ times = <<>>

\* The request was answered with a rendered page carrying only an error.
Rejected == Rendered /\ error # NoError /\ NoResult

StrictlyPositive(x) == (IsFin(x) \/ IsInf(x)) /\ x.n > 0

\* y is a multiple of 1/s and a multiple of 1/s nearest to x (x, y finite).
Near(y, x, s) ==
    /\ IsFin(y) /\ IsFin(x)
    /\ (s * y.n) % y.d = 0
    /\ 2 * Abs(s * y.n * x.d - s * x.n * y.d) <= x.d * y.d

\* Nearest integer to n/d (d > 0), ties upwards.
HalfUp(n, d) ==
    LET q == n \div d
        r == n - q * d
    IN  IF 2 * r < d THEN q ELSE q + 1

\* The declared numeric fields of a route: name, integer or real, the bounds
\* lo < v <= hi (lo <= v when loIncl) and the default taken when the field
\* is absent (none: the empty string).
NumField(name, isInt, lo, loIncl, hi, default) ==
    [name |-> name, isInt |-> isInt, lo |-> lo, loIncl |-> loIncl, hi |-> hi,
     default |-> default]
Real(name, hi) == NumField(name, FALSE, IntV(0), FALSE, hi, <<>>)

NumericFields(r) ==
    CASE r = "/bmi" -> {Real("height_cm", PosInf), Real("weight_kg", PosInf)}
      [] r = "/bmr" -> {NumField("age", TRUE, IntV(0), FALSE, IntV(120), <<>>),
                        Real("height_cm", IntV(250)), Real("weight_kg", IntV(300))}
      [] r = "/calorie" -> {NumField("age", TRUE, IntV(0), FALSE, IntV(120), <<>>),
                            Real("height_cm", IntV(250)), Real("weight_kg", IntV(300)),
                            NumField("activity", FALSE, Lit(11, 1), TRUE, Lit(25, 1),
                                     <<"1", ".", "2">>)}
      [] r = "/water" -> {Real("weight_kg", IntV(300))}
      [] r = "/bodyfat" -> {Real("height_cm", PosInf), Real("neck_cm", PosInf),
                            Real("waist_cm", PosInf)}
                           \cup (IF form_get(form, "sex", "male") = "female"
                                 THEN {Real("hip_cm", PosInf)} ELSE {})
      [] r = "/ideal-weight" -> {Real("height_cm", IntV(250))}
      [] r = "/waist" -> {Real("waist_cm", PosInf), Real("height_cm", PosInf)}
      [] r = "/protein" -> {Real("weight_kg", IntV(300))}
      [] r = "/steps" -> {NumField("steps", TRUE, IntV(0), FALSE, IntV(200000), <<>>),
                          Real("weight_kg", IntV(300))}
      [] r = "/deficit" -> {Real("tdee", IntV(10000))}
      [] r = "/goal-time" -> {Real("current_kg", IntV(300)), Real("target_kg", IntV(300)),
                              NumField("rate", FALSE, IntV(0), FALSE, IntV(2),
                                       <<"0", ".", "5">>)}
      [] OTHER -> {}

\* The number the submitted form carries in a field (None if it carries none).
Submitted(fs) ==
    IF fs.isInt THEN to_int(form_get(form, fs.name, fs.default))
    ELSE to_float(form_get(form, fs.name, fs.default))

InDeclaredRange(v, fs) ==
    /\ IsFin(v)
    /\ IF fs.loIncl THEN Ge(v, fs.lo) ELSE Gt(v, fs.lo)
    /\ Le(v, fs.hi)

BadField(fs) == ~InDeclaredRange(Submitted(fs), fs)

\* C1: in every tool handler, a POST with a numeric field that is missing
\* (and has no default), empty, not a finite number (nan, inf included) or
\* out of its declared range is answered by a rendered page with the error
\* set and no result; the handler never leaves through an exception.
C1_BadNumberRejected ==
    (Posted /\ \E fs \in NumericFields(route) : BadField(fs)) => Rejected

\* The arguments of the calls of bodyfat_us_navy made by the request.
NavyCalls == {calls[i].args : i \in {j \in 1..Len(calls) : calls[j].fn = "bodyfat_us_navy"}}

\* C2: bodyfat_us_navy is only invoked with every log10 argument strictly
\* positive (height, waist - neck and, for a female, hip and
\* waist + hip - neck), and a submission with waist <= neck is rejected
\* with an error, the formula not being evaluated.
C2_NavyArgumentsPositive ==
    /\ \A a \in NavyCalls :
          /\ StrictlyPositive(a[1])
          /\ StrictlyPositive(Sub(a[3], a[2]))
          /\ form_get(form, "sex", "male") = "female" =>
                /\ ~IsNone(a[4])
                /\ StrictlyPositive(a[4])
                /\ StrictlyPositive(Sub(Add(a[3], a[4]), a[2]))
    /\ (route = "/bodyfat" /\ Posted
        /\ LET w == to_float(form_get(form, "waist_cm", <<>>))
               n == to_float(form_get(form, "neck_cm", <<>>))
           IN  ~IsNone(w) /\ ~IsNone(n) /\ Le(w, n))
       => (Rejected /\ calls = NoCalls)

\* The arguments of the calls of weeks_to_goal made by the request.
WeeksCalls == {calls[i].args : i \in {j \in 1..Len(calls) : calls[j].fn = "weeks_to_goal"}}

\* C3: /goal-time calls weeks_to_goal only with rate > 0; a reported weeks
\* value is finite and is |target - current| / rate rounded to one decimal;
\* a rate <= 0 is answered with an error and no weeks value.
C3_WeeksFinite ==
    /\ \A a \in WeeksCalls : StrictlyPositive(a[3])
    /\ (route = "/goal-time" /\ Rendered /\ result.weeks # None) =>
          LET c == to_float(form_get(form, "current_kg", <<>>))
              tg == to_float(form_get(form, "target_kg", <<>>))
              r == to_float(form_get(form, "rate", <<"0", ".", "5">>))
          IN  /\ IsFin(result.weeks)
              /\ IsFin(c) /\ IsFin(tg) /\ IsFin(r) /\ r.n > 0
              /\ Near(result.weeks, Div(AbsV(Sub(tg, c)), r), 10)
    /\ (route = "/goal-time" /\ Posted
        /\ LET r == to_float(form_get(form, "rate", <<"0", ".", "5">>))
           IN  ~IsNone(r) /\ Le(r, IntV(0)))
       => Rejected

\* 10*weight + 6.25*height - 5*age + (5 for male, -161 for female), exactly.
MifflinExact(sex, age, h, w) ==
    Rat(1000 * w.n * h.d + 625 * h.n * w.d - 500 * age.n * h.d * w.d
        + (IF sex = "male" THEN 500 ELSE -16100) * h.d * w.d,
        100 * h.d * w.d)

\* The Mifflin-St Jeor value of the person the form describes.
FormMifflin ==
    MifflinExact(form_get(form, "sex", "male"),
                 to_int(form_get(form, "age", <<>>)),
                 to_float(form_get(form, "height_cm", <<>>)),
                 to_float(form_get(form, "weight_kg", <<>>)))

BmiInterval(h, w) ==
    LET lhs == 100000 * w.n * h.d * h.d
        rhs == h.n * h.n * w.d
    IN  IF lhs < 185 * rhs THEN "underweight"
        ELSE IF lhs < 240 * rhs THEN "normal"
        ELSE IF lhs < 280 * rhs THEN "overweight"
        ELSE "obese"

FormHeight == to_float(form_get(form, "height_cm", <<>>))
FormWeight == to_float(form_get(form, "weight_kg", <<>>))

\* C5: for height > 0 and weight > 0, /bmi reports weight / (height/100)^2
\* (to one decimal) and the category of the unrounded value under the
\* closed-open intervals [0,18.5) [18.5,24) [24,28) [28,inf).
C5_BmiCategory ==
    (route = "/bmi" /\ Posted /\ IsFin(FormHeight) /\ IsFin(FormWeight)
     /\ FormHeight.n > 0 /\ FormWeight.n > 0) =>
        /\ Rendered /\ error = NoError
        /\ labels.category = BmiInterval(FormHeight, FormWeight)
        /\ Near(result.bmi,
                Rat(10000 * FormWeight.n * FormHeight.d * FormHeight.d,
                    FormHeight.n * FormHeight.n * FormWeight.d), 10)

\* A BMI of exactly 18.5, 24 or 28 was classified.
C5_Witness ==
    /\ route = "/bmi" /\ Rendered /\ error = NoError
    /\ \E i \in 1..Len(calls) : calls[i].args[1] \in {Lit(185, 1), IntV(24), IntV(28)}
    /\ labels.category \in {"normal", "overweight", "obese"}

\* sex, age, height and weight of the form are valid for /bmr and /calorie.
PersonValid ==
    /\ form_get(form, "sex", "male") \in {"male", "female"}
    /\ LET age == to_int(form_get(form, "age", <<>>))
       IN  IsFin(age) /\ age.n > 0 /\ age.n <= 120
    /\ IsFin(FormHeight) /\ FormHeight.n > 0 /\ FormHeight.n <= 250 * FormHeight.d
    /\ IsFin(FormWeight) /\ FormWeight.n > 0 /\ FormWeight.n <= 300 * FormWeight.d

\* The activity factor of the form (1.2 when the field is absent).
FormActivity == to_float(form_get(form, "activity", <<"1", ".", "2">>))

\* C6: with a valid person, /calorie rejects a factor below 1.1 or above 2.5
\* with an error and no TDEE, and accepts every factor of [1.1, 2.5] with
\* tdee = the integer nearest to bmr * factor, bmr the unrounded
\* Mifflin-St Jeor value.
C6_ActivityRange ==
    (route = "/calorie" /\ Posted /\ PersonValid /\ IsFin(FormActivity)) =>
        IF 10 * FormActivity.n < 11 * FormActivity.d
           \/ 10 * FormActivity.n > 25 * FormActivity.d
        THEN Rejected
        ELSE /\ Rendered /\ error = NoError
             /\ Near(result.tdee, Mul(FormMifflin, FormActivity), 1)

\* An endpoint of [1.1, 2.5] was accepted for a person whose BMR is no integer.
C6_Witness ==
    /\ route = "/calorie" /\ Rendered /\ PersonValid
    /\ FormActivity \in {Lit(11, 1), Lit(25, 1)}
    /\ FormMifflin.d # 1
    /\ IsFin(result.tdee)

FormWaist == to_float(form_get(form, "waist_cm", <<>>))

\* C7: for waist > 0 and height > 0, /waist reports waist / height (to one
\* decimal) and the tier of the unrounded ratio: below 0.5 good, from 0.5 and
\* below 0.6 attention, from 0.6 high.
C7_WaistTier ==
    (route = "/waist" /\ Posted /\ IsFin(FormWaist) /\ IsFin(FormHeight)
     /\ FormWaist.n > 0 /\ FormHeight.n > 0) =>
        LET num == FormWaist.n * FormHeight.d
            den == FormHeight.n * FormWaist.d
        IN  /\ Rendered /\ error = NoError
            /\ labels.level = IF 2 * num < den THEN "good"
                              ELSE IF 10 * num < 6 * den THEN "attention"
                              ELSE "high"
            /\ Near(result.whtr, Rat(num, den), 10)

\* A ratio of exactly 0.5 or exactly 0.6 was classified.
C7_Witness ==
    /\ route = "/waist" /\ Rendered /\ error = NoError
    /\ IsFin(FormWaist) /\ IsFin(FormHeight) /\ FormHeight.n > 0
    /\ Rat(FormWaist.n * FormHeight.d, FormHeight.n * FormWaist.d) \in {Lit(5, 1), Lit(6, 1)}
    /\ labels.level \in {"attention", "high"}

\* The enumerated fields of a route and their declared values.  The second
\* sleep direction is spelled in the page template; any spelling other than
\* "sleep_now" selects it.
EnumField(name, declared) == [name |-> name, declared |-> declared]
EnumFields(r) ==
    CASE r \in {"/bmr", "/calorie", "/bodyfat", "/ideal-weight"} ->
             {EnumField("sex", {"male", "female"})}
      [] r = "/protein" -> {EnumField("goal", {"maintain", "fat_loss", "muscle_gain"})}
      [] r = "/deficit" ->
             {EnumField("mode", {"loss_fast", "loss_easy", "maintain", "gain"})}
      [] r = "/sleep" -> {EnumField("mode", {"sleep_now", "wake_up"})}
      [] OTHER -> {}

Undeclared(ef) == form[ef.name].present /\ form[ef.name].s \notin ef.declared

\* C8: a POST carrying an enumerated field with a value outside its
\* declared set (sex, protein goal, deficit mode, sleep direction) is
\* answered with an error and no result.
C8_EnumsValidated ==
    (Posted /\ \E ef \in EnumFields(route) : Undeclared(ef)) => Rejected

\* C9: a rendered response is all-or-nothing: with the error set no result
\* field is set, with a result field set the error is None, and a GET
\* renders neither an error nor a result.
C9_AllOrNothing ==
    Rendered =>
        /\ error # NoError => NoResult
        /\ ~NoResult => error = NoError
        /\ method = "GET" => (error = NoError /\ NoResult)

\* A POST to /water was turned down.
C9_Witness == route = "/water" /\ Posted /\ Rejected

FormTdee == to_float(form_get(form, "tdee", <<>>))
FormMode == form_get(form, "mode", "loss_easy")

DeclaredDelta(mode) ==
    CASE mode = "loss_fast" -> -500
      [] mode = "loss_easy" -> -300
      [] mode = "maintain" -> 0
      [] mode = "gain" -> 250

\* C10: for 0 < tdee <= 10000 and a declared mode, /deficit reports
\* max(1200, round(tdee + delta)), which is never below 1200.
C10_DeficitFloor ==
    (route = "/deficit" /\ Posted /\ IsFin(FormTdee) /\ FormTdee.n > 0
     /\ FormTdee.n <= 10000 * FormTdee.d
     /\ FormMode \in {"loss_fast", "loss_easy", "maintain", "gain"}) =>
        LET x == Rat(FormTdee.n + DeclaredDelta(FormMode) * FormTdee.d, FormTdee.d)
            target == result.target_kcal
        IN  /\ Rendered /\ error = NoError
            /\ IsFin(target) /\ target.d = 1 /\ target.n >= 1200
            /\ target.n > 1200 => Near(target, x, 1)
            /\ target.n = 1200 => 2 * x.n <= 2401 * x.d

\* The floor was applied: tdee + delta lies below 1200 and 1200 is reported.
C10_Witness ==
    /\ route = "/deficit" /\ Rendered /\ error = NoError
    /\ IsFin(FormTdee)
    /\ FormMode \in {"loss_fast", "loss_easy", "maintain", "gain"}
    /\ FormTdee.n + DeclaredDelta(FormMode) * FormTdee.d < 1199 * FormTdee.d
    /\ result.target_kcal = IntV(1200)

\* The time of day the form carries, <<h, m>>, or <<>> if it carries none.
FormTime == parse_hm(form_get(form, "time_hm", <<>>))
\* The direction of the form ("sleep_now" when the field is absent).
FormDirection == form_get(form, "mode", "sleep_now")

\* s is HH:MM with 00 <= HH <= 23 and 00 <= MM <= 59.
WellFormedTime(s) ==
    /\ Len(s) = 5 /\ s[3] = ":"
    /\ \A i \in {1, 2, 4, 5} : s[i] \in Digits
    /\ 10 * DigitVal(s[1]) + DigitVal(s[2]) <= 23
    /\ 10 * DigitVal(s[4]) + DigitVal(s[5]) <= 59

\* Minutes since midnight of a well-formed HH:MM.
MinutesOf(s) ==
    60 * (10 * DigitVal(s[1]) + DigitVal(s[2])) + 10 * DigitVal(s[4]) + DigitVal(s[5])

\* C11: for every valid time t, /sleep returns exactly four well-formed
\* times, the i-th for N = 3, 4, 5, 6 cycles: (t + 15 + 90 N) mod 1440 when
\* t is a bedtime, (t - 90 N - 15) mod 1440 when t is a wake time.
C11_SleepCandidates ==
    (route = "/sleep" /\ Posted /\ FormTime # <<>>
     /\ FormDirection \in {"sleep_now", "wake_up"}) =>
        LET tm == 60 * FormTime[1] + FormTime[2]
        IN  /\ Rendered /\ error = NoError
            /\ Len(times) = 4
            /\ \A i \in 1..4 :
                  /\ WellFormedTime(times[i])
                  /\ MinutesOf(times[i]) =
                        IF FormDirection = "sleep_now"
                        THEN (tm + 15 + 90 * (i + 2)) % 1440
                        ELSE (tm - 90 * (i + 2) - 15) % 1440

\* A candidate lies across midnight: a wake time earlier in the day than the
\* bedtime, or a bedtime later in the day than the wake time.
C11_Witness ==
    /\ route = "/sleep" /\ Rendered /\ FormTime # <<>> /\ Len(times) = 4
    /\ \/ FormDirection = "sleep_now" /\ MinutesOf(times[1]) < 60 * FormTime[1] + FormTime[2]
       \/ FormDirection = "wake_up" /\ MinutesOf(times[4]) > 60 * FormTime[1] + FormTime[2]

\* C12: in a successful /bmi response the hints agree with the category:
\* the weight to lose (to_max) is set only for overweight or obese, the
\* weight to gain (to_min) only for underweight, and a normal BMI has
\* neither.
C12_HintsMatchCategory ==
    (route = "/bmi" /\ Posted /\ Rendered /\ error = NoError) =>
        /\ result.to_max # None => labels.category \in {"overweight", "obese"}
        /\ result.to_min # None => labels.category = "underweight"
        /\ labels.category = "normal" => (result.to_min = None /\ result.to_max = None)

\* C13: for every input accepted by /bmr and /calorie (valid person, factor
\* in [1.1, 2.5]) the reported BMR and the reported TDEE are strictly
\* positive, so that a reported TDEE is an acceptable tdee for /deficit.
C13_BmrTdeePositive ==
    /\ (route = "/bmr" /\ Posted /\ PersonValid) =>
          (Rendered /\ IsFin(result.bmr) /\ result.bmr.n > 0)
    /\ (route = "/calorie" /\ Posted /\ PersonValid /\ IsFin(FormActivity)
        /\ 10 * FormActivity.n >= 11 * FormActivity.d
        /\ 10 * FormActivity.n <= 25 * FormActivity.d) =>
          (Rendered /\ IsFin(result.tdee) /\ result.tdee.n > 0)

\* The i-th time /sleep returns for the time of day s in direction dir.
SleepAnswer(dir, s, i) ==
    LET back == sleep("POST", [mode |-> Given(dir), time_hm |-> Given(s)])
    IN  IF back.status = "rendered" /\ Len(back.times) = 4 THEN back.times[i] ELSE <<>>

Opposite(dir) == IF dir = "sleep_now" THEN "wake_up" ELSE "sleep_now"

\* C14: the two /sleep directions are inverse to each other: the N-th
\* bedtime returned for a wake time W, submitted as a bedtime, has W as its
\* N-th wake time, and the same starting from a bedtime, for N = 3..6 and
\* every time of day.
C14_SleepInverse ==
    (route = "/sleep" /\ Posted /\ Rendered /\ FormTime # <<>> /\ Len(times) = 4
     /\ FormDirection \in {"sleep_now", "wake_up"}) =>
        \A i \in 1..4 :
            SleepAnswer(Opposite(FormDirection), times[i], i) = fmt(FormTime[1], FormTime[2])

\* A wake time whose longest night starts on the day before.
C14_Witness ==
    /\ route = "/sleep" /\ Rendered /\ FormTime # <<>> /\ Len(times) = 4
    /\ FormDirection = "wake_up"
    /\ MinutesOf(times[4]) > 60 * FormTime[1] + FormTime[2]
    /\ SleepAnswer("sleep_now", times[4], 4) = fmt(FormTime[1], FormTime[2])

====
